---- MODULE Spec2Model ----
(***************************************************************************)
(* Model of the run-data proxy: the serverless full-data handler, the      *)
(* standalone HTTP server (index.js) and the serverless single-player      *)
(* handler (api.js).  One request and one upstream world (the telemetry    *)
(* reply and the lookup replies) are fixed per behaviour and the request   *)
(* is delivered to each handler, so that the handlers can be compared on   *)
(* the same input.  The handlers share no state; they are run in turn.     *)
(* Each action is the code between two suspension points (await).         *)
(*                                                                         *)
(* Strings that the code parses (damage totals) are sequences of           *)
(* one-character strings; all other strings are TLA+ strings.  The runs    *)
(* drawn are well-formed in the sense of the data model: damage strings    *)
(* are digits and '.', gates and players are arrays, identifiers are       *)
(* integers.                                                               *)
(***************************************************************************)
EXTENDS Integers, Sequences, FiniteSets, TLC

\* ---- bounds -------------------------------------------------------------
MaxGates == 1
MaxPlayers == 1
MaxSkills == 2
MaxAggSkills == 2

\* ---- handlers -----------------------------------------------------------
Handlers == {"full", "server", "player"}

ApiPath == "/api/get-run-data"

Paths == {"/", ApiPath, "/nope"}

\* ---- JavaScript conversions --------------------------------------------
Digits == {"0", "1", "2", "3", "4", "5", "6", "7", "8", "9"}

DigitChar(n) ==
    CASE n = 0 -> "0" [] n = 1 -> "1" [] n = 2 -> "2" [] n = 3 -> "3"
      [] n = 4 -> "4" [] n = 5 -> "5" [] n = 6 -> "6" [] n = 7 -> "7"
      [] n = 8 -> "8" [] n = 9 -> "9"

DigitVal(c) ==
    CASE c = "0" -> 0 [] c = "1" -> 1 [] c = "2" -> 2 [] c = "3" -> 3
      [] c = "4" -> 4 [] c = "5" -> 5 [] c = "6" -> 6 [] c = "7" -> 7
      [] c = "8" -> 8 [] c = "9" -> 9

RECURSIVE NatToString(_)
NatToString(n) ==
    IF n < 10 THEN DigitChar(n)
    ELSE NatToString(n \div 10) \o DigitChar(n % 10)

\* Number -> string, as in a template literal or a property key.
StringOf(i) == IF i < 0 THEN "-" \o NatToString(0 - i) ELSE NatToString(i)

\* s.replace(/\./g, '')
StripDots(s) == SelectSeq(s, LAMBDA c : c # ".")

RECURSIVE ParseDigits(_, _)
ParseDigits(s, acc) ==
    IF s = <<>> \/ Head(s) \notin Digits THEN acc
    ELSE ParseDigits(Tail(s), acc * 10 + DigitVal(Head(s)))

\* parseInt(s, 10) on a string that starts with a digit.
ParseInt(s) == ParseDigits(s, 0)

\* parseInt(x.replace(/\./g, ''), 10)
ParseDamage(s) == ParseInt(StripDots(s))

\* ---- upstream data ------------------------------------------------------
RunId == "r1"

SkillRecords ==
    { [id |-> -1, damage |-> <<"5", "0", "0">>, hitCounts |-> <<3, 0>>],
      [id |-> 0, damage |-> <<"2", ".", "5", "0", "0">>, hitCounts |-> <<8, 2>>],
      [id |-> 5, damage |-> <<"5", "0", "0">>, hitCounts |-> <<8, 2>>],
      [id |-> 7, damage |-> <<"1", ".", "0", "0", "0">>, hitCounts |-> <<1, 1>>] }

Totals == { <<"0">>, <<"1", ".", "0", "0", "0">> }

SeqsUpTo(S, n) == UNION { [1..k -> S] : k \in 0..n }

SkillSeqs == SeqsUpTo(SkillRecords, MaxSkills)

PlayerData == [damageDealt : Totals, skills : SkillSeqs]

GateId(i) == "g" \o NatToString(i)

GateName(i) == "Gate " \o NatToString(i)

\* The player at position j has the numeric id j.
PlayerSeqs ==
    UNION { { [j \in 1..k |-> [id |-> j,
                               damageDealt |-> f[j].damageDealt,
                               skills |-> f[j].skills]] :
              f \in [1..k -> PlayerData] } : k \in 0..MaxPlayers }

\* The gate at position i has the id GateId(i).
Runs ==
    UNION { { [gates |-> [i \in 1..k |-> [id |-> GateId(i),
                                         name |-> GateName(i),
                                         players |-> ps[i]]]] :
              ps \in [1..k -> PlayerSeqs] } : k \in 0..MaxGates }

NoRun == [gates |-> <<>>]

NoPlayer == [id |-> 0, damageDealt |-> <<>>, skills |-> <<>>]

\* Replies of the telemetry service to GET .../game/dps/{id}.
RunReplies ==
    { [kind |-> "rejected", text |-> "fetch failed", run |-> NoRun],
      [kind |-> "notok", text |-> "Not Found", run |-> NoRun],
      [kind |-> "badjson", text |-> "Unexpected token < in JSON", run |-> NoRun] }
    \cup { [kind |-> "ok", text |-> "OK", run |-> r] : r \in Runs }

\* Replies of the lookup service to GET .../virt.skilltable/{skillId}.
\* body: "name" (JSON with _NameID_txt), "nofield" (JSON without it),
\* "garbage" (not JSON).
Unasked == [kind |-> "unasked", ok |-> FALSE, body |-> "none"]

LookupOutcomes ==
    { [kind |-> "rejected", ok |-> FALSE, body |-> "none"],
      [kind |-> "replied", ok |-> TRUE, body |-> "name"],
      [kind |-> "replied", ok |-> TRUE, body |-> "nofield"],
      [kind |-> "replied", ok |-> TRUE, body |-> "garbage"],
      [kind |-> "replied", ok |-> FALSE, body |-> "nofield"] }

\* The value of _NameID_txt the lookup service has for a skill.
NameTxt(id) == "Skill#" \o StringOf(id)

AllIds == { s.id : s \in SkillRecords }

\* ---- requests -----------------------------------------------------------
ParamNames == {"id", "player_id", "gate_id"}

ParamValues(k) ==
    CASE k = "id" -> {"", RunId}
      [] k = "player_id" -> {"", "0"} \cup { NatToString(j) : j \in 1..MaxPlayers }
      [] k = "gate_id" -> {"", "g0"} \cup { GateId(i) : i \in 1..MaxGates }

AllParamValues == UNION { ParamValues(k) : k \in ParamNames }

\* request.query: a parameter that is absent is not in the domain.
Queries ==
    { q \in UNION { [D -> AllParamValues] : D \in SUBSET ParamNames } :
        \A k \in DOMAIN q : q[k] \in ParamValues(k) }

NoQuery == [k \in {} |-> ""]

Requests ==
    { [path |-> ApiPath, query |-> q] : q \in Queries }
    \cup { [path |-> p, query |-> NoQuery] : p \in Paths \ {ApiPath} }

\* ---- state --------------------------------------------------------------
VARIABLES
    request,            \* the incoming request
    runReply,           \* what the telemetry service answers
    lookupReply,        \* what the lookup service answers, per skill id
    pc,                 \* per handler: idle, awaitRun, awaitLookups, done
    runCalls,           \* per handler: number of run fetches issued
    lookupCalls,        \* per handler: skill ids a lookup was issued for
    runData,            \* per handler: the parsed run
    player,             \* api.js: the selected player
    uniqueSkillIds,     \* per handler: the array uniqueSkillIds
    skillNamePromises,  \* per handler: skill id -> name, or Pending
    skillDictionary,    \* per handler: the name mapping, key -> name
    percentOps,         \* api.js: number of percentages computed
    response,           \* per handler: the response sent
    sent,               \* per handler: number of responses sent
    cleanedData         \* the page's generateCleanJson output

vars == <<request, runReply, lookupReply, pc, runCalls, lookupCalls, runData,
          player, uniqueSkillIds, skillNamePromises, skillDictionary,
          percentOps, response, sent, cleanedData>>

Pending == "<pending>"

NoResponse == [status |-> 0, body |-> [kind |-> "none"]]

EmptyMap == [k \in {} |-> ""]

NoCleanedData == [shown |-> FALSE, gate |-> 0, player |-> 0, rows |-> <<>>]

Init ==
    /\ request \in Requests
    /\ runReply \in RunReplies
    /\ lookupReply = [i \in AllIds |-> Unasked]
    /\ pc = [h \in Handlers |-> "idle"]
    /\ runCalls = [h \in Handlers |-> 0]
    /\ lookupCalls = [h \in Handlers |-> <<>>]
    /\ runData = [h \in Handlers |-> NoRun]
    /\ player = NoPlayer
    /\ uniqueSkillIds = [h \in Handlers |-> <<>>]
    /\ skillNamePromises = [h \in Handlers |-> EmptyMap]
    /\ skillDictionary = [h \in Handlers |-> EmptyMap]
    /\ percentOps = 0
    /\ response = [h \in Handlers |-> NoResponse]
    /\ sent = [h \in Handlers |-> 0]
    /\ cleanedData = NoCleanedData

\* ---- Identifier Collector ----------------------------------------------
RECURSIVE Flatten(_)
Flatten(ss) == IF ss = <<>> THEN <<>> ELSE Head(ss) \o Flatten(Tail(ss))

Contains(s, x) == \E i \in 1..Len(s) : s[i] = x

\* Insertion order of a Set: the first occurrence of each value.
RECURSIVE SetOrder(_, _)
SetOrder(s, acc) ==
    IF s = <<>> THEN acc
    ELSE IF Contains(acc, Head(s)) THEN SetOrder(Tail(s), acc)
    ELSE SetOrder(Tail(s), Append(acc, Head(s)))

\* player.skills.map(s => s.id)
SkillIdsOfPlayer(p) == [i \in 1..Len(p.skills) |-> p.skills[i].id]

SkillIdsOfGate(g) ==
    Flatten([j \in 1..Len(g.players) |-> SkillIdsOfPlayer(g.players[j])])

SkillIdsOfRun(run) ==
    Flatten([i \in 1..Len(run.gates) |-> SkillIdsOfGate(run.gates[i])])

\* if (skill.id > 0) allSkillIds.add(skill.id)
IsCollected(id) == id > 0

\* Array.from(allSkillIds) of the full-data handlers
CollectAllSkillIds(run) ==
    SetOrder(SelectSeq(SkillIdsOfRun(run), IsCollected), <<>>)

\* [...new Set(skillIds)] of the single-player handler
CollectPlayerSkillIds(p) == SetOrder(SkillIdsOfPlayer(p), <<>>)

\* if (skillId < 0) return { id: skillId, name: 'Basic Attack' }
IsSkipped(id) == id < 0

\* ---- Name Resolver ------------------------------------------------------
\* Variant: the catch handler leaves the identifier out of the placeholder.
ResolveNameNoId(id, o) ==
    IF o.kind = "rejected" \/ o.body = "garbage"
    THEN "Error Skill"
    ELSE IF o.body = "name" THEN NameTxt(id)
    ELSE "Unknown Skill (" \o StringOf(id) \o ")"

\* fetch(skillUrl).then(res => res.json()).then(...).catch(...)
ResolveName(id, o) ==
    IF o.kind = "rejected" \/ o.body = "garbage"
    THEN "Error Skill (" \o StringOf(id) \o ")"
    ELSE IF o.body = "name" THEN NameTxt(id)
    ELSE "Unknown Skill (" \o StringOf(id) \o ")"

\* Variant: the handler goes on without waiting for the lookups.
NotAwaited(p) == TRUE

\* Promise.all resolves once no promise is pending.
AllSettled(p) == \A id \in DOMAIN p : p[id] # Pending

\* acc[curr.id] = curr.name
Put(m, k, v) == [x \in DOMAIN m \cup {k} |-> IF x = k THEN v ELSE m[x]]

\* skillNameEntries: the results of Promise.all, in the order of the array
SkillNameEntries(ids, p) ==
    [i \in 1..Len(ids) |-> [id |-> ids[i], name |-> p[ids[i]]]]

\* skillNameEntries.reduce((acc, curr) => ..., {})
RECURSIVE BuildDictionary(_, _)
BuildDictionary(entries, acc) ==
    IF entries = <<>> THEN acc
    ELSE BuildDictionary(Tail(entries),
                         Put(acc, StringOf(Head(entries).id), Head(entries).name))

\* Variant: the fixed entry is not added.
AddNothing(dict) == dict

\* skillDictionary["-1"] = "Basic Attack"
AddBasicAttack(dict) == Put(dict, "-1", "Basic Attack")

\* ---- Aggregator ---------------------------------------------------------
RECURSIVE Sum(_)
Sum(s) == IF s = <<>> THEN 0 ELSE Head(s) + Sum(Tail(s))

\* Variant: the crits are read at index 0.
CritsAtZero(hitCounts) == IF Len(hitCounts) >= 1 THEN hitCounts[1] ELSE 0

\* skill.hitCounts[1] || 0
Crits(hitCounts) == IF Len(hitCounts) >= 2 THEN hitCounts[2] ELSE 0

\* skillDictionary[skill.id] || `Unknown Skill (${skill.id})`
NameOf(dict, id) ==
    IF StringOf(id) \in DOMAIN dict /\ dict[StringOf(id)] # ""
    THEN dict[StringOf(id)]
    ELSE "Unknown Skill (" \o StringOf(id) \o ")"

\* Variant: toFixed truncates instead of rounding.
ToFixed1Trunc(a, b) == { (1000 * a) \div b }

\* parseFloat(((a / b) * 100).toFixed(1)) for a >= 0 and b > 0, in tenths:
\* the tenth nearest to 100a/b.  When 100a/b lies exactly between two tenths
\* the binary value of (a / b) * 100 decides which one toFixed yields (23/80
\* gives 28.7, 3/80 gives 3.8), so both are possible outcomes here.
ToFixed1(a, b) ==
    LET lo == (1000 * a) \div b IN
    { n \in {lo, lo + 1} :
        2 * (IF n * b >= 1000 * a THEN n * b - 1000 * a ELSE 1000 * a - n * b) <= b }

\* The elements of cleanedData a skill record can yield; percent and
\* crit_rate are in tenths.
Row(skill, dict, totalDamage) ==
    LET damage == ParseDamage(skill.damage)
        crits == Crits(skill.hitCounts)
        totalHits == Sum(skill.hitCounts)
    IN
    { [name |-> NameOf(dict, skill.id),
       damage |-> damage,
       percent |-> percent,
       crit_hits |-> StringOf(crits) \o " / " \o StringOf(totalHits),
       crit_rate |-> critRate] :
        percent \in ToFixed1(damage, totalDamage),
        critRate \in IF totalHits > 0 THEN ToFixed1(crits, totalHits) ELSE {0} }

\* player.skills.map(skill => ...): the arrays the map can yield
MapRows(skills, dict, totalDamage) ==
    { rows \in [1..Len(skills) -> UNION { Row(skills[i], dict, totalDamage) :
                                           i \in 1..Len(skills) }] :
        \A i \in 1..Len(skills) : rows[i] \in Row(skills[i], dict, totalDamage) }

\* Variant: the comparator sorts ascending.
CompareDamageAsc(a, b) == a.damage - b.damage

\* (a, b) => b.damage - a.damage
CompareDamage(a, b) == b.damage - a.damage

RECURSIVE InsertRow(_, _)
InsertRow(x, s) ==
    IF s = <<>> THEN <<x>>
    ELSE IF CompareDamage(Head(s), x) <= 0 THEN <<Head(s)>> \o InsertRow(x, Tail(s))
    ELSE <<x>> \o s

\* Array.prototype.sort with the comparator: a stable sort.
RECURSIVE SortRows(_, _)
SortRows(rows, acc) ==
    IF rows = <<>> THEN acc
    ELSE SortRows(Tail(rows), InsertRow(Head(rows), acc))

\* Variant: the zero check never fires.
IsNegativeDamage(totalDamage) == totalDamage < 0

\* if (totalDamage === 0)
IsZeroDamage(totalDamage) == totalDamage = 0

\* ---- Request Handler ----------------------------------------------------
\* !x of a query parameter: absent or the empty string
Falsy(q, k) == k \notin DOMAIN q \/ q[k] = ""

\* The value destructured from request.query; undefined when absent.
Param(q, k) == IF k \in DOMAIN q THEN q[k] ELSE "undefined"

\* if (!id)
MissingId(q) == Falsy(q, "id")

\* Variant: only id is validated.
MissingIdOnly(q) == Falsy(q, "id")

\* if (!id || !player_id || !gate_id)
MissingAny(q) == Falsy(q, "id") \/ Falsy(q, "player_id") \/ Falsy(q, "gate_id")

MsgMissingId == "Missing required query parameter: 'id'"

MsgMissingAny ==
    "Missing required query parameters. 'id', 'player_id', and 'gate_id' are all required."

MsgZeroDamage == "Player has 0 damage for this gate."

MsgInternal == "An internal server error occurred."

Resp(status, body) == [status |-> status, body |-> body]

ErrorBody(msg) == [kind |-> "error", error |-> msg]

\* Variant: the first gate is taken whatever its id.
FindFirstGate(gates, gate_id) == IF Len(gates) > 0 THEN 1 ELSE 0

\* runData.gates.find(g => g.id === gate_id): index of the gate, 0 if none
FindGate(gates, gate_id) ==
    IF \E i \in 1..Len(gates) : gates[i].id = gate_id
    THEN CHOOSE i \in 1..Len(gates) :
            /\ gates[i].id = gate_id
            /\ \A k \in 1..(i - 1) : gates[k].id # gate_id
    ELSE 0

\* gate.players.find(p => p.id == player_id): a number against the decimal
\* string of the query; index of the player, 0 if none
FindPlayer(players, player_id) ==
    IF \E j \in 1..Len(players) : StringOf(players[j].id) = player_id
    THEN CHOOSE j \in 1..Len(players) :
            /\ StringOf(players[j].id) = player_id
            /\ \A k \in 1..(j - 1) : StringOf(players[k].id) # player_id
    ELSE 0

\* The message of the error thrown on a run fetch that did not succeed.
RunErrorAll(id, reply) ==
    IF reply.kind = "notok"
    THEN "Failed to fetch run data (ID: " \o id \o "): " \o reply.text
    ELSE reply.text

RunErrorPlayer(reply) ==
    IF reply.kind = "notok"
    THEN "Failed to fetch run data: " \o reply.text
    ELSE reply.text

\* catch (error): the body of the 500 response
CatchBody(h, msg) ==
    IF h = "server" /\ msg = "" THEN ErrorBody(MsgInternal) ELSE ErrorBody(msg)

\* The serverless functions are deployed at ApiPath only; the standalone
\* server receives every path.
Routed(h) == h = "server" \/ request.path = ApiPath

Order(h) == CASE h = "full" -> 1 [] h = "server" -> 2 [] h = "player" -> 3

\* The request is replayed against the handlers in turn.
Quiet(h) ==
    \A g \in Handlers : Order(g) < Order(h) => (pc[g] = "done" \/ ~Routed(g))

\* Variant: the response is written a second time.
RespondTwice(h, r) ==
    /\ response' = [response EXCEPT ![h] = r]
    /\ sent' = [sent EXCEPT ![h] = @ + 2]
    /\ pc' = [pc EXCEPT ![h] = "done"]

\* response.status(..).json(..) / res.writeHead(..); res.end(..), and return
Respond(h, r) ==
    /\ response' = [response EXCEPT ![h] = r]
    /\ sent' = [sent EXCEPT ![h] = @ + 1]
    /\ pc' = [pc EXCEPT ![h] = "done"]

FetchRun(h) ==
    /\ runCalls' = [runCalls EXCEPT ![h] = @ + 1]
    /\ pc' = [pc EXCEPT ![h] = "awaitRun"]
    /\ UNCHANGED <<response, sent>>

\* Serverless full-data handler: up to the await of the run fetch.
ReceiveFull ==
    /\ pc["full"] = "idle" /\ Quiet("full") /\ Routed("full")
    /\ IF MissingId(request.query)
       THEN Respond("full", Resp(400, ErrorBody(MsgMissingId))) /\ UNCHANGED runCalls
       ELSE FetchRun("full")
    /\ UNCHANGED <<cleanedData, request, runReply, lookupReply, lookupCalls, runData, player,
                   uniqueSkillIds, skillNamePromises, skillDictionary, percentOps>>

\* Standalone server: the createServer callback up to its await.
ReceiveServer ==
    /\ pc["server"] = "idle" /\ Quiet("server") /\ Routed("server")
    /\ IF request.path = "/"
       THEN Respond("server", Resp(200, [kind |-> "html"])) /\ UNCHANGED runCalls
       ELSE IF request.path = ApiPath
       THEN IF MissingId(request.query)
            THEN Respond("server", Resp(400, ErrorBody(MsgMissingId)))
                 /\ UNCHANGED runCalls
            ELSE FetchRun("server")
       ELSE Respond("server", Resp(404, ErrorBody("Not Found"))) /\ UNCHANGED runCalls
    /\ UNCHANGED <<cleanedData, request, runReply, lookupReply, lookupCalls, runData, player,
                   uniqueSkillIds, skillNamePromises, skillDictionary, percentOps>>

\* Serverless single-player handler: up to the await of the run fetch.
ReceivePlayer ==
    /\ pc["player"] = "idle" /\ Quiet("player") /\ Routed("player")
    /\ IF MissingAny(request.query)
       THEN Respond("player", Resp(400, ErrorBody(MsgMissingAny))) /\ UNCHANGED runCalls
       ELSE FetchRun("player")
    /\ UNCHANGED <<cleanedData, request, runReply, lookupReply, lookupCalls, runData, player,
                   uniqueSkillIds, skillNamePromises, skillDictionary, percentOps>>

\* Full-data handlers: from the run reply to the await of Promise.all.
RunRepliedAll(h) ==
    /\ h \in {"full", "server"}
    /\ pc[h] = "awaitRun"
    /\ IF runReply.kind # "ok"
       THEN /\ Respond(h, Resp(500, CatchBody(h, RunErrorAll(Param(request.query, "id"), runReply))))
            /\ UNCHANGED <<runData, uniqueSkillIds, lookupCalls, skillNamePromises>>
       ELSE LET ids == CollectAllSkillIds(runReply.run) IN
            /\ runData' = [runData EXCEPT ![h] = runReply.run]
            /\ uniqueSkillIds' = [uniqueSkillIds EXCEPT ![h] = ids]
            /\ lookupCalls' = [lookupCalls EXCEPT ![h] = ids]
            /\ skillNamePromises' = [skillNamePromises EXCEPT ![h] =
                   [id \in { ids[i] : i \in 1..Len(ids) } |-> Pending]]
            /\ pc' = [pc EXCEPT ![h] = "awaitLookups"]
            /\ UNCHANGED <<response, sent>>
    /\ UNCHANGED <<cleanedData, request, runReply, lookupReply, runCalls, player,
                   skillDictionary, percentOps>>

\* Single-player handler: from the run reply to the await of Promise.all.
RunRepliedPlayer ==
    LET h == "player"
        q == request.query
        gates == runReply.run.gates
        gate_id == Param(q, "gate_id")
        player_id == Param(q, "player_id")
        g == FindGate(gates, gate_id)
        players == gates[g].players
        p == FindPlayer(players, player_id)
        ids == CollectPlayerSkillIds(players[p])
        fetched == SelectSeq(ids, LAMBDA id : ~IsSkipped(id))
    IN
    /\ pc[h] = "awaitRun"
    /\ IF runReply.kind # "ok"
       THEN /\ Respond(h, Resp(500, CatchBody(h, RunErrorPlayer(runReply))))
            /\ UNCHANGED <<runData, player, uniqueSkillIds, lookupCalls,
                           skillNamePromises>>
       ELSE IF g = 0
       THEN /\ Respond(h, Resp(500, CatchBody(h,
                    "Gate with ID '" \o gate_id \o "' not found.")))
            /\ runData' = [runData EXCEPT ![h] = runReply.run]
            /\ UNCHANGED <<player, uniqueSkillIds, lookupCalls, skillNamePromises>>
       ELSE IF p = 0
       THEN /\ Respond(h, Resp(500, CatchBody(h,
                    "Player with ID '" \o player_id \o "' not found in gate '"
                    \o gates[g].name \o "'.")))
            /\ runData' = [runData EXCEPT ![h] = runReply.run]
            /\ UNCHANGED <<player, uniqueSkillIds, lookupCalls, skillNamePromises>>
       ELSE IF IsZeroDamage(ParseDamage(players[p].damageDealt))
       THEN /\ Respond(h, Resp(200, [kind |-> "zero", message |-> MsgZeroDamage,
                                     data |-> <<>>]))
            /\ runData' = [runData EXCEPT ![h] = runReply.run]
            /\ player' = players[p]
            /\ UNCHANGED <<uniqueSkillIds, lookupCalls, skillNamePromises>>
       ELSE /\ runData' = [runData EXCEPT ![h] = runReply.run]
            /\ player' = players[p]
            /\ uniqueSkillIds' = [uniqueSkillIds EXCEPT ![h] = ids]
            /\ lookupCalls' = [lookupCalls EXCEPT ![h] = fetched]
            /\ skillNamePromises' = [skillNamePromises EXCEPT ![h] =
                   [id \in { ids[i] : i \in 1..Len(ids) } |->
                       IF IsSkipped(id) THEN "Basic Attack" ELSE Pending]]
            /\ pc' = [pc EXCEPT ![h] = "awaitLookups"]
            /\ UNCHANGED <<response, sent>>
    /\ UNCHANGED <<cleanedData, request, runReply, lookupReply, runCalls, skillDictionary,
                   percentOps>>

\* One lookup call settles: the lookup service answers for this skill id
\* (the same answer to every handler) and the promise chain yields a name.
LookupSettled(h, id) ==
    /\ pc[h] = "awaitLookups"
    /\ id \in DOMAIN skillNamePromises[h]
    /\ skillNamePromises[h][id] = Pending
    /\ \E o \in LookupOutcomes :
          /\ lookupReply[id] \in {Unasked, o}
          /\ lookupReply' = [lookupReply EXCEPT ![id] = o]
          /\ skillNamePromises' = [skillNamePromises EXCEPT ![h][id] = ResolveName(id, o)]
    /\ UNCHANGED <<cleanedData, request, runReply, pc, runCalls, lookupCalls, runData, player,
                   uniqueSkillIds, skillDictionary, percentOps, response, sent>>

\* Full-data handlers: Promise.all resolved, up to the response.
JoinAll(h) ==
    /\ h \in {"full", "server"}
    /\ pc[h] = "awaitLookups"
    /\ AllSettled(skillNamePromises[h])
    /\ LET entries == SkillNameEntries(uniqueSkillIds[h], skillNamePromises[h])
           dict == AddBasicAttack(BuildDictionary(entries, EmptyMap))
       IN /\ skillDictionary' = [skillDictionary EXCEPT ![h] = dict]
          /\ Respond(h, Resp(200, [kind |-> "full", runData |-> runData[h],
                                   skillDictionary |-> dict]))
    /\ UNCHANGED <<cleanedData, request, runReply, lookupReply, runCalls, lookupCalls, runData,
                   player, uniqueSkillIds, skillNamePromises, percentOps>>

\* Single-player handler: Promise.all resolved, up to the response.
JoinPlayer ==
    LET h == "player" IN
    /\ pc[h] = "awaitLookups"
    /\ AllSettled(skillNamePromises[h])
    /\ LET entries == SkillNameEntries(uniqueSkillIds[h], skillNamePromises[h])
           dict == BuildDictionary(entries, EmptyMap)
           totalDamage == ParseDamage(player.damageDealt)
       IN /\ skillDictionary' = [skillDictionary EXCEPT ![h] = dict]
          /\ percentOps' = percentOps + Len(player.skills)
          /\ \E rows \in MapRows(player.skills, dict, totalDamage) :
                Respond(h, Resp(200, [kind |-> "rows", rows |-> SortRows(rows, <<>>)]))
    /\ UNCHANGED <<cleanedData, request, runReply, lookupReply, runCalls, lookupCalls, runData,
                   player, uniqueSkillIds, skillNamePromises>>

Next ==
    \/ ReceiveFull
    \/ ReceiveServer
    \/ ReceivePlayer
    \/ \E h \in Handlers : RunRepliedAll(h)
    \/ RunRepliedPlayer
    \/ \E h \in Handlers : \E id \in AllIds : LookupSettled(h, id)
    \/ \E h \in Handlers : JoinAll(h)
    \/ JoinPlayer

Spec == Init /\ [][Next]_vars

\* ---- progress ------------------------------------------------------------
\* Runs in which every gate has the same players and every player the same
\* total and skills.
UniformRuns ==
    { [gates |-> [i \in 1..k |-> [id |-> GateId(i), name |-> GateName(i),
                                  players |-> [j \in 1..m |->
                                      [id |-> j, damageDealt |-> d.damageDealt,
                                       skills |-> d.skills]]]]] :
        k \in 0..MaxGates, m \in 0..MaxPlayers, d \in PlayerData }

InitLive ==
    /\ request \in Requests
    /\ runReply \in { r \in RunReplies : r.kind # "ok" }
                    \cup { [kind |-> "ok", text |-> "OK", run |-> r] : r \in UniformRuns }
    /\ lookupReply = [i \in AllIds |-> Unasked]
    /\ pc = [h \in Handlers |-> "idle"]
    /\ runCalls = [h \in Handlers |-> 0]
    /\ lookupCalls = [h \in Handlers |-> <<>>]
    /\ runData = [h \in Handlers |-> NoRun]
    /\ player = NoPlayer
    /\ uniqueSkillIds = [h \in Handlers |-> <<>>]
    /\ skillNamePromises = [h \in Handlers |-> EmptyMap]
    /\ skillDictionary = [h \in Handlers |-> EmptyMap]
    /\ percentOps = 0
    /\ response = [h \in Handlers |-> NoResponse]
    /\ sent = [h \in Handlers |-> 0]
    /\ cleanedData = NoCleanedData

\* Every upstream call completes and the event loop runs the continuation of
\* every settled await.
SpecLive == InitLive /\ [][Next]_vars /\ WF_vars(Next)

\* ---- the aggregation on richer skill records ---------------------------
AggSkillRecords ==
    { [id |-> 5, damage |-> <<"1", ".", "0", "0", "0">>, hitCounts |-> <<8, 2>>],
      [id |-> -1, damage |-> <<"1">>, hitCounts |-> <<3, 0>>],
      [id |-> 7, damage |-> <<"2">>, hitCounts |-> <<>>],
      [id |-> 0, damage |-> <<"2">>, hitCounts |-> <<5>>],
      [id |-> 7, damage |-> <<"1">>, hitCounts |-> <<57, 23>>] }

AggTotals == { <<"1", ".", "0", "0", "0">>, <<"3">> }

AggRuns ==
    { [gates |-> << [id |-> GateId(1), name |-> GateName(1),
                     players |-> << [id |-> 1, damageDealt |-> t, skills |-> ss] >>] >>] :
        t \in AggTotals, ss \in SeqsUpTo(AggSkillRecords, MaxAggSkills) }

AggRequest ==
    [path |-> ApiPath,
     query |-> [k \in ParamNames |->
                   CASE k = "id" -> RunId
                     [] k = "player_id" -> "1"
                     [] k = "gate_id" -> GateId(1)]]

InitAgg ==
    /\ request = AggRequest
    /\ runReply \in { [kind |-> "ok", text |-> "OK", run |-> r] : r \in AggRuns }
    /\ lookupReply = [i \in AllIds |-> Unasked]
    /\ pc = [h \in Handlers |-> "idle"]
    /\ runCalls = [h \in Handlers |-> 0]
    /\ lookupCalls = [h \in Handlers |-> <<>>]
    /\ runData = [h \in Handlers |-> NoRun]
    /\ player = NoPlayer
    /\ uniqueSkillIds = [h \in Handlers |-> <<>>]
    /\ skillNamePromises = [h \in Handlers |-> EmptyMap]
    /\ skillDictionary = [h \in Handlers |-> EmptyMap]
    /\ percentOps = 0
    /\ response = [h \in Handlers |-> NoResponse]
    /\ sent = [h \in Handlers |-> 0]
    /\ cleanedData = NoCleanedData

\* The page served by the standalone server: generateCleanJson on the data
\* the server returned, for the gate and the player chosen in the selects
\* (gate ids and player ids are unique, so find() yields the chosen ones).
GenerateCleanJson ==
    /\ pc["server"] = "done"
    /\ response["server"].status = 200
    /\ response["server"].body.kind = "full"
    /\ ~cleanedData.shown
    /\ LET gates == response["server"].body.runData.gates
           dict == response["server"].body.skillDictionary
       IN \E g \in 1..Len(gates) : \E p \in 1..Len(gates[g].players) :
            LET pl == gates[g].players[p]
                totalDamage == ParseDamage(pl.damageDealt)
            IN IF IsZeroDamage(totalDamage)
               THEN cleanedData' = [shown |-> TRUE, gate |-> g, player |-> p,
                                    rows |-> <<>>]
               ELSE \E rows \in MapRows(pl.skills, dict, totalDamage) :
                       cleanedData' = [shown |-> TRUE, gate |-> g, player |-> p,
                                       rows |-> SortRows(rows, <<>>)]
    /\ UNCHANGED <<request, runReply, lookupReply, pc, runCalls, lookupCalls,
                   runData, player, uniqueSkillIds, skillNamePromises,
                   skillDictionary, percentOps, response, sent>>

NextAgg == Next \/ GenerateCleanJson

SpecAgg == InitAgg /\ [][NextAgg]_vars

\* ---- properties ---------------------------------------------------------
Done(h) == pc[h] = "done"

\* The handler answered 200 with a complete name mapping behind it.
SentMapping(h) ==
    /\ Done(h)
    /\ response[h].status = 200
    /\ response[h].body.kind \in {"full", "rows"}

Issued(h) == { lookupCalls[h][i] : i \in 1..Len(lookupCalls[h]) }

LookupFailed(id) ==
    \/ lookupReply[id].kind = "rejected"
    \/ lookupReply[id].kind = "replied" /\ lookupReply[id].body = "garbage"

RequiredParams(h) == IF h = "player" THEN ParamNames ELSE {"id"}

MissingRequired(h) ==
    { k \in RequiredParams(h) :
        k \notin DOMAIN request.query \/ request.query[k] = "" }

\* Skill ids referenced in the scope of the handler's request.
ScopeIds(h) ==
    IF h = "player"
    THEN { player.skills[i].id : i \in 1..Len(player.skills) }
    ELSE { s.id : s \in UNION { UNION { { p.skills[i] : i \in 1..Len(p.skills) } :
                  p \in { g.players[j] : j \in 1..Len(g.players) } } :
                  g \in { runData[h].gates[i] : i \in 1..Len(runData[h].gates) } } }

\* C1: once a handler that issued lookups has answered, it answered 200, and
\* its mapping has, for every looked-up identifier X, a key for X whose value
\* is decided by X's own reply alone: the placeholder "Error Skill (X)" when
\* the lookup of X was rejected or unparseable, and otherwise the name or the
\* "Unknown Skill (X)" placeholder that X's reply yields, whatever happened to
\* the other lookups.
C1_FailureIsolated ==
    \A h \in Handlers :
        (Done(h) /\ lookupCalls[h] # <<>>) =>
            /\ response[h].status = 200
            /\ \A x \in Issued(h) :
                  /\ StringOf(x) \in DOMAIN skillDictionary[h]
                  /\ skillDictionary[h][StringOf(x)] =
                        IF LookupFailed(x)
                        THEN "Error Skill (" \o StringOf(x) \o ")"
                        ELSE IF lookupReply[x].body = "name"
                        THEN "Skill#" \o StringOf(x)
                        ELSE "Unknown Skill (" \o StringOf(x) \o ")"

C1_Witness ==
    \E h \in Handlers : \E x, y \in Issued(h) :
        /\ Done(h)
        /\ x # y
        /\ LookupFailed(x)
        /\ lookupReply[y].kind = "replied" /\ lookupReply[y].body = "name"

C3_LookupsPositiveUnique ==
    \A h \in Handlers :
        /\ \A i \in 1..Len(lookupCalls[h]) : lookupCalls[h][i] > 0
        /\ \A i, j \in 1..Len(lookupCalls[h]) :
              lookupCalls[h][i] = lookupCalls[h][j] => i = j

\* C4: once the mapping is complete, every skill identifier referenced by a
\* skill record in the request's scope is a key of the mapping.
C4_MappingComplete ==
    \A h \in Handlers :
        SentMapping(h) =>
            \A id \in ScopeIds(h) : StringOf(id) \in DOMAIN skillDictionary[h]

\* C5: a request to the API path with a required parameter absent or empty
\* is answered 400 with the error that names the required field(s), and the
\* handler issues no run fetch and no lookup for it.
C5_ValidationFirst ==
    \A h \in Handlers :
        (request.path = ApiPath /\ MissingRequired(h) # {}) =>
            /\ runCalls[h] = 0
            /\ lookupCalls[h] = <<>>
            /\ pc[h] \in {"idle", "done"}
            /\ Done(h) =>
                  /\ response[h].status = 400
                  /\ response[h].body.kind = "error"
                  /\ response[h].body.error =
                        IF h = "player"
                        THEN "Missing required query parameters. 'id', 'player_id', and 'gate_id' are all required."
                        ELSE "Missing required query parameter: 'id'"

C5_Witness ==
    /\ Done("player")
    /\ MissingRequired("player") = {"gate_id"}
    /\ response["player"].status = 400
    /\ Done("server") /\ response["server"].status = 200

\* The serverless handler that serves a request of the given shape.
Counterpart == IF DOMAIN request.query = ParamNames THEN "player" ELSE "full"

\* C6: for a request with id only, or with id, player_id and gate_id, the
\* standalone server and the serverless handler answer with the same status
\* and the same body.
C6_ShapesEquivalent ==
    ( /\ request.path = ApiPath
      /\ DOMAIN request.query \in {{"id"}, ParamNames}
      /\ \A k \in DOMAIN request.query : request.query[k] # ""
      /\ Done("server") /\ Done(Counterpart) )
    => response["server"] = response[Counterpart]

\* C7: the rows of a 200 response of the single-player handler are ordered
\* by damage, descending.
C7_RowsSortedDesc ==
    (Done("player") /\ response["player"].body.kind = "rows") =>
        LET rows == response["player"].body.rows IN
        \A i \in 1..(Len(rows) - 1) : rows[i].damage >= rows[i + 1].damage

C7_Witness ==
    /\ Done("player") /\ response["player"].body.kind = "rows"
    /\ Len(response["player"].body.rows) >= 2
    /\ Len(player.skills) >= 2
    /\ ParseDamage(player.skills[1].damage) < ParseDamage(player.skills[2].damage)

\* C8: when the selected player's parsed total damage is 0 the single-player
\* handler answers 200 with the zero-damage message and an empty data
\* sequence, issues no lookup, computes no percentage and returns no rows.
C8_ZeroDamageShortCircuit ==
    (player # NoPlayer /\ ParseDamage(player.damageDealt) = 0) =>
        /\ Done("player")
        /\ response["player"] =
              Resp(200, [kind |-> "zero",
                         message |-> "Player has 0 damage for this gate.",
                         data |-> <<>>])
        /\ percentOps = 0
        /\ lookupCalls["player"] = <<>>

C8_Witness ==
    /\ Done("player")
    /\ response["player"].body.kind = "zero"
    /\ Len(player.skills) > 0

GateIdx ==
    { i \in 1..Len(runReply.run.gates) :
        runReply.run.gates[i].id = request.query["gate_id"] }

PlayerIdx(i) ==
    { j \in 1..Len(runReply.run.gates[i].players) :
        StringOf(runReply.run.gates[i].players[j].id) = request.query["player_id"] }

\* C9: in the single-player handler, with valid parameters and a fetched run,
\* a gate_id that matches no gate is answered 500 with the error naming the
\* gate id, and a player_id that matches no player of the gate is answered
\* 500 with the error naming the player id; no lookups are issued and no
\* rows returned.
C9_NotFound ==
    ( /\ request.path = ApiPath
      /\ MissingRequired("player") = {}
      /\ runReply.kind = "ok"
      /\ pc["player"] \notin {"idle", "awaitRun"} )
    =>
      /\ GateIdx = {} =>
            /\ response["player"] =
                  Resp(500, ErrorBody("Gate with ID '" \o request.query["gate_id"]
                                      \o "' not found."))
            /\ Done("player") /\ lookupCalls["player"] = <<>>
      /\ \A i \in GateIdx : PlayerIdx(i) = {} =>
            /\ response["player"] =
                  Resp(500, ErrorBody("Player with ID '" \o request.query["player_id"]
                                      \o "' not found in gate '"
                                      \o runReply.run.gates[i].name \o "'."))
            /\ Done("player") /\ lookupCalls["player"] = <<>>

C9_Witness ==
    /\ Done("player")
    /\ response["player"].status = 500
    /\ MissingRequired("player") = {}
    /\ runReply.kind = "ok"
    /\ Len(runReply.run.gates) > 0
    /\ GateIdx = {}

\* C10: a response is sent only when no issued lookup is still pending, and a
\* success response is sent when every issued lookup has been answered by
\* the lookup service and has its entry in the mapping.
C10_JoinBeforeRespond ==
    \A h \in Handlers :
        /\ Issued(h) \subseteq DOMAIN skillNamePromises[h]
        /\ Done(h) => \A x \in Issued(h) : skillNamePromises[h][x] # Pending
        /\ SentMapping(h) =>
              \A x \in Issued(h) :
                  /\ lookupReply[x] # Unasked
                  /\ StringOf(x) \in DOMAIN skillDictionary[h]
                  /\ skillDictionary[h][StringOf(x)] = skillNamePromises[h][x]

C10_Witness ==
    \E h \in Handlers :
        /\ SentMapping(h)
        /\ Len(lookupCalls[h]) >= 2
        /\ \E x \in Issued(h) : lookupReply[x].kind = "rejected"
        /\ \E y \in Issued(h) : lookupReply[y].kind = "replied"

\* The lookup call for this identifier itself failed: it was rejected, it
\* was answered with a non-success status, or its body was unparseable.
LookupCallFailed(id) ==
    \/ lookupReply[id].kind = "rejected"
    \/ lookupReply[id].kind = "replied" /\ ~lookupReply[id].ok
    \/ lookupReply[id].kind = "replied" /\ lookupReply[id].body = "garbage"

\* C11: the name of a looked-up identifier is "Error Skill (id)" exactly when
\* the lookup call failed (rejection, non-success status, unparseable body),
\* "Unknown Skill (id)" exactly when the call succeeded without the field
\* _NameID_txt, and the value of _NameID_txt otherwise.
C11_PlaceholderKind ==
    \A h \in Handlers : \A x \in Issued(h) :
        skillNamePromises[h][x] # Pending =>
            skillNamePromises[h][x] =
                IF LookupCallFailed(x)
                THEN "Error Skill (" \o StringOf(x) \o ")"
                ELSE IF lookupReply[x].body = "nofield"
                THEN "Unknown Skill (" \o StringOf(x) \o ")"
                ELSE "Skill#" \o StringOf(x)

\* C12: when the telemetry service answers the run fetch with a non-success
\* status, every handler answers 500 with an error whose message carries the
\* status text and the run identifier, and issues no lookup call.
C12_RunFetchFailure ==
    \A h \in Handlers :
        (runReply.kind = "notok" /\ runCalls[h] > 0 /\ pc[h] # "awaitRun") =>
            /\ Done(h)
            /\ lookupCalls[h] = <<>>
            /\ response[h] =
                  Resp(500, ErrorBody("Failed to fetch run data (ID: "
                                      \o request.query["id"] \o "): "
                                      \o runReply.text))

\* n tenths is a tenth nearest to 100 * a / b.
NearestTenth(n, a, b) ==
    2 * (IF n * b >= 1000 * a THEN n * b - 1000 * a ELSE 1000 * a - n * b) <= b

\* The row is the one the claim's formula gives for the skill record.
RowFor(row, skill, dict, total) ==
    LET hc == skill.hitCounts
        crits == IF Len(hc) >= 2 THEN hc[2] ELSE 0
        totalHits == Sum(hc)
    IN /\ row.damage = ParseInt(SelectSeq(skill.damage, LAMBDA c : c # "."))
       /\ NearestTenth(row.percent, row.damage, total)
       /\ row.crit_hits = StringOf(crits) \o " / " \o StringOf(totalHits)
       /\ IF totalHits > 0 THEN NearestTenth(row.crit_rate, crits, totalHits)
          ELSE row.crit_rate = 0
       /\ row.name = IF StringOf(skill.id) \in DOMAIN dict
                     THEN dict[StringOf(skill.id)]
                     ELSE "Unknown Skill (" \o StringOf(skill.id) \o ")"

\* The rows are, in some order, the rows of the skill records.
RowsFor(rows, skills, dict, total) ==
    /\ Len(rows) = Len(skills)
    /\ \E f \in [1..Len(skills) -> 1..Len(skills)] :
          /\ \A i, j \in 1..Len(skills) : f[i] = f[j] => i = j
          /\ \A i \in 1..Len(skills) : RowFor(rows[f[i]], skills[i], dict, total)

ExampleSkill ==
    [id |-> 5, damage |-> <<"1", ".", "0", "0", "0">>, hitCounts |-> <<8, 2>>]

ExampleRow ==
    [name |-> "Skill#5", damage |-> 1000, percent |-> 1000,
     crit_hits |-> "2 / 10", crit_rate |-> 200]

ClientPlayer ==
    response["server"].body.runData.gates[cleanedData.gate].players[cleanedData.player]

\* C13: for a player with parsed total > 0, both the single-player handler
\* and the page's generateCleanJson produce, for every skill record, the row
\* with damage = the damage string without '.' as an integer, percent =
\* damage/total*100 to the nearest tenth, crit_hits = "{crits} / {totalHits}"
\* with crits = hitCounts[1] (0 if absent) and totalHits = the sum of
\* hitCounts, crit_rate = crits/totalHits*100 to the nearest tenth (0.0 when
\* totalHits is 0), and name = the mapping's entry or "Unknown Skill ({id})";
\* total "1.000" with the record {5, "1.000", [8,2]} named by the lookup
\* gives {name, 1000, 100.0, "2 / 10", 20.0}.
C13_RowFormula ==
    /\ (Done("player") /\ response["player"].body.kind = "rows") =>
          /\ RowsFor(response["player"].body.rows, player.skills,
                     skillDictionary["player"], ParseDamage(player.damageDealt))
          /\ ( /\ player.damageDealt = <<"1", ".", "0", "0", "0">>
               /\ \E i \in 1..Len(player.skills) : player.skills[i] = ExampleSkill
               /\ lookupReply[5].body = "name" )
             => \E i \in 1..Len(response["player"].body.rows) :
                    response["player"].body.rows[i] = ExampleRow
    /\ (cleanedData.shown /\ ParseDamage(ClientPlayer.damageDealt) > 0) =>
          RowsFor(cleanedData.rows, ClientPlayer.skills,
                  response["server"].body.skillDictionary,
                  ParseDamage(ClientPlayer.damageDealt))

C13_Witness ==
    /\ Done("player") /\ response["player"].body.kind = "rows"
    /\ Len(response["player"].body.rows) >= 2
    /\ \E i \in 1..Len(response["player"].body.rows) :
          response["player"].body.rows[i] = ExampleRow
    /\ cleanedData.shown
    /\ \E i \in 1..Len(cleanedData.rows) :
          /\ cleanedData.rows[i].name = "Unknown Skill (0)"
          /\ cleanedData.rows[i].crit_hits = "0 / 5"

\* C14: no handler ever sends more than one response, a response has status
\* 200, 400, 404 or 500, and, upstream calls completing, every handler the
\* request is routed to ends up having sent exactly one response.
C14_ExactlyOneResponse ==
    /\ [](\A h \in Handlers :
            /\ sent[h] <= 1
            /\ sent[h] = 1 <=> Done(h)
            /\ Done(h) => response[h].status \in {200, 400, 404, 500})
    /\ <>[](\A h \in Handlers : Routed(h) => (Done(h) /\ sent[h] = 1))

C14_Witness ==
    /\ \A h \in Handlers : Done(h) /\ sent[h] = 1
    /\ response["full"].status = 200
    /\ response["player"].status = 500
    /\ \E x \in Issued("full") : lookupReply[x].kind = "rejected"

====
